---- MODULE Spec2Model ----
(***************************************************************************)
(* Model of pipelines/abalone/preprocess.py: download, parse, transform    *)
(* (median imputation, standardization, one-hot encoding), shuffle, split, *)
(* write three partitions, register a feature group, wait, ingest one      *)
(* record.                                                                 *)
(*                                                                         *)
(* A cell of a table is <<>> when the value is missing (NaN) and <<v>>     *)
(* otherwise.  A float of the transformed matrix is the pair <<p, q>>,     *)
(* standing for the real number p / sqrt(q) with q > 0.                    *)
(***************************************************************************)
EXTENDS Integers, Sequences, FiniteSets, TLC

VARIABLES pc, obj, fn, df, y, fitted, X_imp, X_pre, y_pre, X,
          train, validation, test, files, current_time_sec, df_fs,
          feature_group, slept, put, attempted, newdf, out, out2

vars == <<pc, obj, fn, df, y, fitted, X_imp, X_pre, y_pre, X,
          train, validation, test, files, current_time_sec, df_fs,
          feature_group, slept, put, attempted, newdf, out, out2>>

(* ------------------------------ bounds -------------------------------- *)
MaxRows == 3
MaxNewRows == 1
MaxN == 95
MaxTime == 2

(* ------------------------------ schema -------------------------------- *)
feature_columns_names ==
    <<"sex", "length", "diameter", "height", "whole_weight",
      "shucked_weight", "viscera_weight", "shell_weight">>

label_column == "rings"

numeric_features == SelectSeq(feature_columns_names, LAMBDA c : c # "sex")

categorical_features == <<"sex">>

NA == <<>>

Range(s) == {s[i] : i \in 1..Len(s)}

(* The strings a sex field can hold in the model, in the order np.unique   *)
(* sorts them (upper case before lower case).                              *)
SexOrder == <<"F", "I", "M", "missing">>

(* A field that float64 cannot parse: text that is no single number.      *)
BadField == <<0, 0>>

RawRow(s, l, d, o, r) ==
    [sex |-> s, length |-> l, diameter |-> d, height |-> o,
     whole_weight |-> o, shucked_weight |-> o, viscera_weight |-> o,
     shell_weight |-> o, rings |-> r]

(* The rows an input file is drawn from: the three abalone categories, a   *)
(* missing sex, one missing numeric field, all numeric fields missing.     *)
GoodRows ==
    { RawRow(<<"F">>, <<1>>, <<2>>, <<5>>, <<9>>),
      RawRow(<<"M">>, <<2>>, <<4>>, <<5>>, <<7>>),
      RawRow(<<"I">>, <<4>>, <<3>>, <<5>>, <<5>>),
      RawRow(NA,      <<2>>, <<6>>, <<5>>, <<11>>),
      RawRow(<<"F">>, NA,    <<4>>, <<5>>, <<8>>),
      RawRow(<<"M">>, NA,    NA,    NA,    <<6>>) }

BadRows == { RawRow(<<"F">>, BadField, <<2>>, <<5>>, <<9>>) }

SeqsUpTo(S, lo, hi) == UNION { [1..k -> S] : k \in lo..hi }

(* ------------------------------ floats -------------------------------- *)
Flt(p, q) == IF p = 0 THEN <<0, 1>> ELSE <<p, q>>

FltInt(i) == Flt(i, 1)

(* The 53-bit significands of the doubles 0.7 (0x1.6666666666666p-1) and   *)
(* 0.85 (0x1.b333333333333p-1), as three limbs of 18 bits, most            *)
(* significant first.                                                      *)
Limb == 262144

Sig070 == <<91750, 104857, 157286>>

Sig085 == <<111411, 52428, 209715>>

RECURSIVE BitLen(_)
BitLen(x) == IF x = 0 THEN 0 ELSE 1 + BitLen(x \div 2)

RECURSIVE Pow2(_)
Pow2(k) == IF k = 0 THEN 1 ELSE 2 * Pow2(k - 1)

(* int(c * n) for the double c = sig * 2^-53 and the integer n, computed   *)
(* as IEEE-754 does: the exact product, rounded to 53 significant bits     *)
(* (ties to even), then truncated.                                         *)
IntOfProduct(sig, n) ==
    LET c0 == n * sig[3]
        r0 == c0 % Limb
        c1 == n * sig[2] + c0 \div Limb
        r1 == c1 % Limb
        c2 == n * sig[1] + c1 \div Limb
        s  == BitLen(c2) - 17
        unit == Pow2(s)
        rem == r0 % unit
        keep == r0 \div unit
        up == IF s = 0 THEN 0
              ELSE IF 2 * rem > unit THEN 1
              ELSE IF 2 * rem = unit /\ keep % 2 = 1 THEN 1
              ELSE 0
        q0 == (keep + up) * unit
        q1 == r1 + q0 \div Limb
        q2 == c2 + q1 \div Limb
    IN  IF n = 0 THEN 0 ELSE q2 \div 131072

(* np.split(X, [int(0.7 * len(X)), int(0.85 * len(X))])                    *)
SplitCuts(n) == <<IntOfProduct(Sig070, n), IntOfProduct(Sig085, n)>>

Split(M) ==
    LET cuts == SplitCuts(Len(M))
    IN  <<SubSeq(M, 1, cuts[1]),
          SubSeq(M, cuts[1] + 1, cuts[2]),
          SubSeq(M, cuts[2] + 1, Len(M))>>

(* np.random.shuffle(X): the rows of X in any order, each row kept whole.  *)
Perms(n) == { p \in [1..n -> 1..n] : \A i, j \in 1..n : p[i] = p[j] => i = j }

ShufflesWithRepeats(M) ==
    { [i \in 1..Len(M) |-> M[p[i]]] : p \in [1..Len(M) -> 1..Len(M)] }

Shuffles(M) == { [i \in 1..Len(M) |-> M[p[i]]] : p \in Perms(Len(M)) }

(* ---------------------------- transformer ----------------------------- *)
Col(tbl, c) == [i \in 1..Len(tbl) |-> tbl[i][c]]

Present(col) ==
    LET kept == SelectSeq(col, LAMBDA v : v # NA)
    IN  [i \in 1..Len(kept) |-> kept[i][1]]

(* Twice the median of a non-empty sequence of integers (np.ma.median:     *)
(* the middle value, or the mean of the two middle values).                *)
Median2Lower(vals) ==
    LET s == SortSeq(vals, LAMBDA a, b : a < b)
    IN  2 * s[(Len(s) + 1) \div 2]

Median2(vals) ==
    LET s == SortSeq(vals, LAMBDA a, b : a < b)
        n == Len(s)
    IN  IF n % 2 = 1 THEN 2 * s[(n + 1) \div 2]
        ELSE s[n \div 2] + s[n \div 2 + 1]

(* A float holding v2 / 2.                                                 *)
Half(v2) == <<v2, 4>>

(* SimpleImputer(strategy="median").fit: statistics_ per numeric column,   *)
(* NA for a column with no observed value.                                 *)
ImputerFit(tbl) ==
    [j \in 1..Len(numeric_features) |->
        LET obs == Present(Col(tbl, numeric_features[j]))
        IN  IF Len(obs) = 0 THEN NA ELSE <<Median2(obs)>>]

(* The columns the imputer keeps: those whose statistic is not NaN.        *)
KeptCols(statistics) ==
    SelectSeq([j \in 1..Len(numeric_features) |-> j],
              LAMBDA j : statistics[j] # NA)

(* SimpleImputer.transform: columns without a statistic are dropped,       *)
(* missing cells take the statistic, other cells keep their value.         *)
ImputerTransform(statistics, tbl) ==
    LET kept == KeptCols(statistics)
    IN  [i \in 1..Len(tbl) |->
            [c \in 1..Len(kept) |->
                LET cell == tbl[i][numeric_features[kept[c]]]
                IN  IF cell = NA THEN Half(statistics[kept[c]][1])
                    ELSE Half(2 * cell[1])]]

RECURSIVE SumSeq(_)
SumSeq(s) == IF Len(s) = 0 THEN 0 ELSE s[1] + SumSeq(Tail(s))

(* StandardScaler.fit on the imputed matrix: mean_ and var_ per column as  *)
(* fractions <<numerator, denominator>>.                                   *)
ScalerFit(M) ==
    LET n == Len(M)
        w == IF n = 0 THEN 0 ELSE Len(M[1])
        S(c) == SumSeq([i \in 1..n |-> M[i][c][1]])
        Q(c) == SumSeq([i \in 1..n |-> M[i][c][1] * M[i][c][1]])
    IN  [n_samples_seen |-> n,
         mean |-> [c \in 1..w |-> <<S(c), 2 * n>>],
         var  |-> [c \in 1..w |-> <<n * Q(c) - S(c) * S(c), 4 * n * n>>]]

(* StandardScaler.transform of one cell: (x - mean_) / scale_, where       *)
(* scale_ is sqrt(var_), or 1 for a column of zero variance.               *)
ScaleCell(scaler, c, x) ==
    LET n   == scaler.n_samples_seen
        num == n * x[1] - scaler.mean[c][1]
        v   == scaler.var[c]
    IN  IF v[1] = 0 THEN Flt(num, v[2]) ELSE Flt(num, v[1])

ScalerTransform(scaler, M) ==
    [i \in 1..Len(M) |-> [c \in 1..Len(M[i]) |-> ScaleCell(scaler, c, M[i][c])]]

(* SimpleImputer(strategy="constant", fill_value="missing") on sex.        *)
fill_value == "missing"

ImputeSex(cell) == IF cell = NA THEN fill_value ELSE cell[1]

(* OneHotEncoder.fit: categories_ are the sorted distinct values.          *)
OneHotFit(tbl) ==
    LET seen == {ImputeSex(tbl[i].sex) : i \in 1..Len(tbl)}
    IN  SelectSeq(SexOrder, LAMBDA s : s \in seen)

handle_unknown_error == "error"

handle_unknown == "ignore"

OneHotRaises(categories, tbl) ==
    /\ handle_unknown = "error"
    /\ \E i \in 1..Len(tbl) : ImputeSex(tbl[i].sex) \notin Range(categories)

OneHotTransform(categories, tbl) ==
    [i \in 1..Len(tbl) |->
        [c \in 1..Len(categories) |->
            IF categories[c] = ImputeSex(tbl[i].sex) THEN FltInt(1) ELSE FltInt(0)]]

(* ColumnTransformer.fit: the numeric pipeline, then the categorical one.  *)
Fit(tbl) ==
    LET st == ImputerFit(tbl)
    IN  [statistics |-> st,
         scaler     |-> ScalerFit(ImputerTransform(st, tbl)),
         categories |-> OneHotFit(tbl)]

(* ColumnTransformer.transform: numeric block, then one-hot block.         *)
HStack(num, cat) == [i \in 1..Len(num) |-> num[i] \o cat[i]]

Transform(f, tbl) ==
    HStack(ScalerTransform(f.scaler, ImputerTransform(f.statistics, tbl)),
           OneHotTransform(f.categories, tbl))

(* fit_transform stacks a sparse matrix when the density of the blocks is  *)
(* below sparse_threshold = 0.3; the dense numeric block counts as full    *)
(* and the one-hot block has one non-zero per row.                         *)
SparseOutput(f, tbl) ==
    LET c == Len(KeptCols(f.statistics))
        k == Len(f.categories)
    IN  10 * (c + 1) < 3 * (c + k)

(* fit_transform followed by np.concatenate raises when the scaler gets a  *)
(* matrix without columns, or when the stacked output is sparse.           *)
TransformFails(tbl) ==
    \/ Len(KeptCols(ImputerFit(tbl))) = 0
    \/ SparseOutput(Fit(tbl), tbl)

(* transform leaves the fitted state as it is.                             *)
FittedAfterRefit(f, tbl) == Fit(tbl)

FittedAfterTransform(f, tbl) == f

(* df.pop("rings"): the table without the label column.                    *)
Features(row) == [c \in Range(feature_columns_names) |-> row[c]]

PopLabel(tbl) == [i \in 1..Len(tbl) |-> Features(tbl[i])]

(* y.to_numpy().reshape(len(y), 1)                                         *)
Reshape(col) == [i \in 1..Len(col) |-> <<FltInt(col[i][1])>>]

(* np.concatenate((y_pre, X_pre), axis=1)                                  *)
ConcatenateLabelLast(a, b) == [i \in 1..Len(a) |-> b[i] \o a[i]]

Concatenate(a, b) == [i \in 1..Len(a) |-> a[i] \o b[i]]

(* ------------------------------ outputs ------------------------------- *)
Partitions == {"train", "validation", "test"}

(* DataFrame.to_csv(header=False, index=False): one line per row, fields   *)
(* in the column order of the matrix.                                      *)
ToCsv(M) == [i \in 1..Len(M) |-> M[i]]

(* What a failed to_csv can leave behind: no file, or a file cut short.    *)
PartialFiles(M) == {NA} \cup { <<ToCsv(SubSeq(M, 1, k))>> : k \in 0..(Len(M) - 1) }

event_time_feature_name == "EventTime"

(* df_fs = df.copy(); df_fs["EventTime"] = current_time_sec                *)
WithEventTime(tbl, t) ==
    [i \in 1..Len(tbl) |->
        [c \in Range(feature_columns_names) \cup {event_time_feature_name} |->
            IF c = event_time_feature_name THEN <<t>> ELSE tbl[i][c]]]

(* astype("str").astype("string") on the object columns: NaN reads "nan".  *)
StringifyObjects(tbl) ==
    [i \in 1..Len(tbl) |->
        [c \in DOMAIN tbl[i] |->
            IF c = "sex" /\ tbl[i][c] = NA THEN <<"nan">> ELSE tbl[i][c]]]

FeatureDef(n, t) == [FeatureName |-> n, FeatureType |-> t]

feature_definition ==
    <<FeatureDef("sex", "String"),
      FeatureDef("length", "Fractional"),
      FeatureDef("diameter", "Fractional"),
      FeatureDef("height", "Fractional"),
      FeatureDef("whole_weight", "Fractional"),
      FeatureDef("shucked_weight", "Fractional"),
      FeatureDef("viscera_weight", "Fractional"),
      FeatureDef("shell_weight", "Fractional"),
      FeatureDef("EventTime", "Fractional")>>

Entry(n, v) == [FeatureName |-> n, ValueAsString |-> v]

put_record_Record_short ==
    <<Entry("sex", "String"),
      Entry("length", "11"),
      Entry("diameter", "11"),
      Entry("height", "11"),
      Entry("whole_weight", "11"),
      Entry("shucked_weight", "11"),
      Entry("viscera_weight", "11"),
      Entry("shell_weight", "11")>>

put_record_Record ==
    <<Entry("sex", "String"),
      Entry("length", "11"),
      Entry("diameter", "11"),
      Entry("height", "11"),
      Entry("whole_weight", "11"),
      Entry("shucked_weight", "11"),
      Entry("viscera_weight", "11"),
      Entry("shell_weight", "11"),
      Entry("EventTime", "11")>>

(* -------------------------------- run --------------------------------- *)
StepOrder ==
    <<"download", "parse", "transform", "split", "write_train",
      "write_validation", "write_test", "register", "delay", "ingest">>

Attempt(step) == attempted' = Append(attempted, step)

(* The object in the bucket is any file of at most MaxRows lines.          *)
Init ==
    /\ pc = "start"
    /\ \E o \in SeqsUpTo(GoodRows \cup BadRows, 0, MaxRows) : obj = <<o>>
    /\ fn = NA /\ df = NA /\ y = NA /\ fitted = NA /\ X_imp = NA
    /\ X_pre = NA /\ y_pre = NA /\ X = NA /\ train = NA /\ validation = NA
    /\ test = NA /\ files = [f \in Partitions |-> NA] /\ current_time_sec = 0
    /\ df_fs = NA /\ feature_group = NA /\ slept = FALSE /\ put = NA
    /\ attempted = <<>> /\ newdf = NA /\ out = NA /\ out2 = NA

(* s3.Bucket(bucket).download_file(key, fn)                                *)
Download ==
    /\ pc = "start"
    /\ fn' = obj
    /\ pc' = "downloaded"
    /\ Attempt("download")
    /\ UNCHANGED <<obj, df, y, fitted, X_imp, X_pre, y_pre, X, train, validation,
                   test, files, current_time_sec, df_fs, feature_group, slept,
                   put, newdf, out, out2>>

DownloadFail ==
    /\ pc = "start"
    /\ pc' = "failed"
    /\ Attempt("download")
    /\ UNCHANGED <<obj, fn, df, y, fitted, X_imp, X_pre, y_pre, X, train,
                   validation, test, files, current_time_sec, df_fs,
                   feature_group, slept, put, newdf, out, out2>>

(* pd.read_csv raises on an empty file and on a field that is no float64.  *)
ParseFails(lines) ==
    \/ Len(lines) = 0
    \/ \E i \in 1..Len(lines) :
         \E c \in Range(numeric_features) \cup {label_column} : lines[i][c] = BadField

(* df = pd.read_csv(fn, ...); os.unlink(fn)                                *)
Parse ==
    /\ pc = "downloaded"
    /\ ~ParseFails(fn[1])
    /\ df' = fn[1]
    /\ fn' = NA
    /\ pc' = "parsed"
    /\ Attempt("parse")
    /\ UNCHANGED <<obj, y, fitted, X_imp, X_pre, y_pre, X, train, validation,
                   test, files, current_time_sec, df_fs, feature_group, slept,
                   put, newdf, out, out2>>

ParseFail ==
    /\ pc = "downloaded"
    /\ ParseFails(fn[1])
    /\ pc' = "failed"
    /\ Attempt("parse")
    /\ UNCHANGED <<obj, fn, df, y, fitted, X_imp, X_pre, y_pre, X, train,
                   validation, test, files, current_time_sec, df_fs,
                   feature_group, slept, put, newdf, out, out2>>

(* y = df.pop("rings"); X_pre = preprocess.fit_transform(df);              *)
(* y_pre = y.to_numpy().reshape(len(y), 1); X = np.concatenate(...)        *)
TransformStep ==
    /\ pc = "parsed"
    /\ ~TransformFails(PopLabel(df))
    /\ y' = Col(df, label_column)
    /\ df' = PopLabel(df)
    /\ fitted' = Fit(df')
    /\ X_imp' = ImputerTransform(fitted'.statistics, df')
    /\ X_pre' = Transform(fitted', df')
    /\ y_pre' = Reshape(y')
    /\ X' = Concatenate(y_pre', X_pre')
    /\ pc' = "transformed"
    /\ Attempt("transform")
    /\ UNCHANGED <<obj, fn, train, validation, test, files, current_time_sec,
                   df_fs, feature_group, slept, put, newdf, out, out2>>

TransformFail ==
    /\ pc = "parsed"
    /\ TransformFails(PopLabel(df))
    /\ y' = Col(df, label_column)
    /\ df' = PopLabel(df)
    /\ pc' = "failed"
    /\ Attempt("transform")
    /\ UNCHANGED <<obj, fn, fitted, X_imp, X_pre, y_pre, X, train, validation,
                   test, files, current_time_sec, df_fs, feature_group, slept,
                   put, newdf, out, out2>>

(* np.random.shuffle(X); train, validation, test = np.split(X, [...])      *)
ShuffleSplit ==
    /\ pc = "transformed"
    /\ \E S \in Shuffles(X) :
         /\ X' = S
         /\ train' = Split(S)[1]
         /\ validation' = Split(S)[2]
         /\ test' = Split(S)[3]
    /\ pc' = "split"
    /\ Attempt("split")
    /\ UNCHANGED <<obj, fn, df, y, fitted, X_imp, X_pre, y_pre, files,
                   current_time_sec, df_fs, feature_group, slept, put, newdf,
                   out, out2>>

PartitionOf(f) ==
    IF f = "train" THEN train ELSE IF f = "validation" THEN validation ELSE test

WriteFrame ==
    UNCHANGED <<obj, fn, df, y, fitted, X_imp, X_pre, y_pre, X, train,
                validation, test, current_time_sec, df_fs, feature_group, slept,
                put, newdf, out, out2>>

(* pd.DataFrame(part).to_csv(f"{base_dir}/{f}/{f}.csv", ...)               *)
Write(at, f, next) ==
    /\ pc = at
    /\ files' = [files EXCEPT ![f] = <<ToCsv(PartitionOf(f))>>]
    /\ pc' = next
    /\ Attempt("write_" \o f)
    /\ WriteFrame

WriteFails(at, f) ==
    /\ pc = at
    /\ \E left \in PartialFiles(PartitionOf(f)) : files' = [files EXCEPT ![f] = left]
    /\ pc' = "failed"
    /\ Attempt("write_" \o f)
    /\ WriteFrame

WriteTrain == Write("split", "train", "train_written")

WriteTrainFail == WriteFails("split", "train")

WriteValidation == Write("train_written", "validation", "validation_written")

WriteValidationFail == WriteFails("train_written", "validation")

WriteTest == Write("validation_written", "test", "test_written")

WriteTestFail == WriteFails("validation_written", "test")

RemoteFrame ==
    UNCHANGED <<obj, fn, df, y, fitted, X_imp, X_pre, y_pre, X, train,
                validation, test, files, newdf, out, out2>>

(* current_time_sec = int(round(time.time())); df_fs = ...;                *)
(* sagemaker_client.create_feature_group(FeatureDefinitions = ...)         *)
Register ==
    /\ pc = "test_written"
    /\ \E t \in 1..MaxTime :
         /\ current_time_sec' = t
         /\ df_fs' = WithEventTime(df, t)
    /\ feature_group' = <<feature_definition>>
    /\ pc' = "registered"
    /\ Attempt("register")
    /\ UNCHANGED <<slept, put>>
    /\ RemoteFrame

RegisterFailRetry ==
    /\ pc = "test_written"
    /\ \E t \in 1..MaxTime :
         /\ current_time_sec' = t
         /\ df_fs' = WithEventTime(df, t)
    /\ pc' = "test_written"
    /\ Attempt("register")
    /\ UNCHANGED <<feature_group, slept, put>>
    /\ RemoteFrame

RegisterFailCleanup ==
    /\ pc = "test_written"
    /\ \E t \in 1..MaxTime :
         /\ current_time_sec' = t
         /\ df_fs' = WithEventTime(df, t)
    /\ pc' = "failed"
    /\ Attempt("register")
    /\ files' = [f \in Partitions |-> NA]
    /\ UNCHANGED <<feature_group, slept, put, obj, fn, df, y, fitted, X_imp,
                   X_pre, y_pre, X, train, validation, test, newdf, out, out2>>

RegisterFail ==
    /\ pc = "test_written"
    /\ \E t \in 1..MaxTime :
         /\ current_time_sec' = t
         /\ df_fs' = WithEventTime(df, t)
    /\ pc' = "failed"
    /\ Attempt("register")
    /\ UNCHANGED <<feature_group, slept, put>>
    /\ RemoteFrame

(* the astype loop over df_fs.columns, then time.sleep(60)                 *)
Delay ==
    /\ pc = "registered"
    /\ df_fs' = StringifyObjects(df_fs)
    /\ slept' = TRUE
    /\ pc' = "slept"
    /\ Attempt("delay")
    /\ UNCHANGED <<current_time_sec, feature_group, put>>
    /\ RemoteFrame

(* featurestore_runtime.put_record(FeatureGroupName=..., Record=[...])     *)
Ingest ==
    /\ pc = "slept"
    /\ put' = <<put_record_Record>>
    /\ pc' = "done"
    /\ Attempt("ingest")
    /\ UNCHANGED <<current_time_sec, df_fs, feature_group, slept>>
    /\ RemoteFrame

IngestFail ==
    /\ pc = "slept"
    /\ pc' = "failed"
    /\ Attempt("ingest")
    /\ UNCHANGED <<current_time_sec, df_fs, feature_group, slept, put>>
    /\ RemoteFrame

Next ==
    \/ Download \/ DownloadFail
    \/ Parse \/ ParseFail
    \/ TransformStep \/ TransformFail
    \/ ShuffleSplit
    \/ WriteTrain \/ WriteTrainFail
    \/ WriteValidation \/ WriteValidationFail
    \/ WriteTest \/ WriteTestFail
    \/ Register \/ RegisterFail
    \/ Delay
    \/ Ingest \/ IngestFail

Spec == Init /\ [][Next]_vars

(* ------------------- the fitted transformer on new data ---------------- *)
(* The rows of the new table: a seen or unseen category, a missing sex,    *)
(* a missing length, all numeric fields missing.                          *)
ProbeRows ==
    { Features(r) : r \in
        { RawRow(<<"I">>, <<4>>, <<3>>, <<5>>, <<5>>),
          RawRow(NA,      <<2>>, <<6>>, <<5>>, <<11>>),
          RawRow(<<"F">>, NA,    <<4>>, <<5>>, <<8>>),
          RawRow(<<"M">>, NA,    NA,    NA,    <<6>>) } }

InitApply ==
    /\ pc = "parsed"
    /\ \E t \in SeqsUpTo(GoodRows, 1, MaxRows) : obj = <<t>> /\ df = t
    /\ newdf \in SeqsUpTo(ProbeRows, 1, MaxNewRows)
    /\ fn = NA /\ y = NA /\ fitted = NA /\ X_imp = NA
    /\ X_pre = NA /\ y_pre = NA /\ X = NA /\ train = NA /\ validation = NA
    /\ test = NA /\ files = [f \in Partitions |-> NA] /\ current_time_sec = 0
    /\ df_fs = NA /\ feature_group = NA /\ slept = FALSE /\ put = NA
    /\ attempted = <<"download", "parse">> /\ out = NA /\ out2 = NA

ApplyFrame ==
    UNCHANGED <<obj, fn, df, y, X_pre, y_pre, X, train, validation, test,
                files, current_time_sec, df_fs, feature_group, slept, put,
                attempted, newdf>>

(* preprocess.transform(newdf) with the transformer fitted on df           *)
ApplyNew ==
    /\ pc = "transformed"
    /\ IF OneHotRaises(fitted.categories, newdf)
       THEN /\ pc' = "raised"
            /\ UNCHANGED <<fitted, X_imp, out, out2>>
       ELSE /\ X_imp' = ImputerTransform(fitted.statistics, newdf)
            /\ out' = Transform(fitted, newdf)
            /\ fitted' = FittedAfterTransform(fitted, newdf)
            /\ pc' = "applied"
            /\ UNCHANGED out2
    /\ ApplyFrame

ApplyAgain ==
    /\ pc = "applied"
    /\ X_imp' = ImputerTransform(fitted.statistics, newdf)
    /\ out2' = Transform(fitted, newdf)
    /\ fitted' = FittedAfterTransform(fitted, newdf)
    /\ pc' = "applied2"
    /\ UNCHANGED out
    /\ ApplyFrame

NextApply == TransformStep \/ TransformFail \/ ApplyNew \/ ApplyAgain

SpecApply == InitApply /\ [][NextApply]_vars

(* ------------------------- the split on its own ------------------------ *)
InitSplit ==
    /\ pc = "transformed"
    /\ \E n \in 0..MaxN : X = [i \in 1..n |-> <<FltInt(i)>>]
    /\ obj = NA /\ fn = NA /\ df = NA /\ y = NA /\ fitted = NA /\ X_imp = NA
    /\ X_pre = NA /\ y_pre = NA /\ train = NA /\ validation = NA
    /\ test = NA /\ files = [f \in Partitions |-> NA] /\ current_time_sec = 0
    /\ df_fs = NA /\ feature_group = NA /\ slept = FALSE /\ put = NA
    /\ attempted = <<"download", "parse", "transform">>
    /\ newdf = NA /\ out = NA /\ out2 = NA

(* np.split(X, [int(0.7 * len(X)), int(0.85 * len(X))]) on X as it is      *)
ApplySplit ==
    /\ pc = "transformed"
    /\ train' = Split(X)[1]
    /\ validation' = Split(X)[2]
    /\ test' = Split(X)[3]
    /\ pc' = "split"
    /\ Attempt("split")
    /\ UNCHANGED <<obj, fn, df, y, fitted, X_imp, X_pre, y_pre, X, files,
                   current_time_sec, df_fs, feature_group, slept, put, newdf,
                   out, out2>>

NextSplit == ApplySplit

SpecSplit == InitSplit /\ [][NextSplit]_vars

(* ------------------------------- claims -------------------------------- *)
Attempted(step) == \E i \in 1..Len(attempted) : attempted[i] = step

(* The step was attempted and did not fail.                                *)
Completed(step) ==
    \E i \in 1..Len(attempted) :
        attempted[i] = step /\ (i < Len(attempted) \/ pc # "failed")

(* C1: after the split of a matrix of n rows, |train| = floor(0.7 n),      *)
(* |validation| = floor(0.85 n) - floor(0.7 n), |test| = n - floor(0.85 n) *)
(* and the three sizes add up to n.                                        *)
C1_SplitSizes ==
    pc = "split" =>
        LET n == Len(X)
        IN  /\ Len(train) = (7 * n) \div 10
            /\ Len(validation) = (85 * n) \div 100 - (7 * n) \div 10
            /\ Len(test) = n - (85 * n) \div 100
            /\ Len(train) + Len(validation) + Len(test) = n

NoMissing(tbl) == \A i \in 1..Len(tbl) : \A c \in DOMAIN tbl[i] : tbl[i][c] # NA

Imputed == IF pc = "transformed" THEN df ELSE newdf

Observed(j) == Present(Col(df, numeric_features[j]))

Below(obs, a) == Cardinality({i \in 1..Len(obs) : obs[i] < a})

AtMost(obs, a) == Cardinality({i \in 1..Len(obs) : obs[i] <= a})

(* a is the r-th smallest value of obs.                                    *)
IsRanked(obs, r, a) == a \in Range(obs) /\ Below(obs, a) < r /\ r <= AtMost(obs, a)

(* m2 is twice the median of obs.                                          *)
IsMedian2(obs, m2) ==
    \E lo, hi \in Range(obs) :
        /\ IsRanked(obs, (Len(obs) + 1) \div 2, lo)
        /\ IsRanked(obs, Len(obs) \div 2 + 1, hi)
        /\ m2 = lo + hi

ImputedAsClaimed(cell, obs, got) ==
    IF cell = NA
    THEN got[2] = 4 /\ IsMedian2(obs, got[1])
    ELSE got = Half(2 * cell[1])

(* C4 as stated: every numeric column comes out of the imputer with each   *)
(* missing value replaced by the median of the column's observed fit       *)
(* values and the other values untouched.                                  *)
C4_EveryColumnImputed ==
    pc \in {"transformed", "applied"} =>
        LET obs == [j \in 1..Len(numeric_features) |-> Observed(j)]
        IN  \A i \in 1..Len(Imputed) :
            /\ Len(X_imp[i]) = Len(numeric_features)
            /\ \A j \in 1..Len(numeric_features) :
                 ImputedAsClaimed(Imputed[i][numeric_features[j]], obs[j], X_imp[i][j])

(* C4, amended: every numeric column with at least one observed fit value  *)
(* comes out of the imputer, before standardization, with each missing     *)
(* value replaced by the median of the observed fit values and the other   *)
(* values untouched; a column with no observed fit value is dropped.       *)
C4_ObservedColumnsImputed ==
    pc \in {"transformed", "applied"} =>
        LET obs == [j \in 1..Len(numeric_features) |-> Observed(j)]
            pos == [j \in 1..Len(numeric_features) |->
                        Cardinality({h \in 1..j : Len(obs[h]) > 0})]
            result == IF pc = "transformed" THEN X_pre ELSE out
        IN  \A i \in 1..Len(Imputed) :
            /\ Len(X_imp[i]) = pos[Len(numeric_features)]
            /\ \A j \in 1..Len(numeric_features) :
                 Len(obs[j]) > 0 =>
                    /\ ImputedAsClaimed(Imputed[i][numeric_features[j]], obs[j],
                                        X_imp[i][pos[j]])
                    /\ result[i][pos[j]] =
                          ScaleCell(fitted.scaler, pos[j], X_imp[i][pos[j]])

C4_Witness ==
    /\ pc = "applied"
    /\ newdf[1].length = NA
    /\ \E i \in 1..Len(df) : df[i].length = NA
    /\ Range(Observed(1)) = {1, 4}
    /\ X_imp[1][1] = Half(5)

SexValue(row) == IF row.sex = NA THEN "missing" ELSE row.sex[1]

SeenAtFit == {SexValue(df[i]) : i \in 1..Len(df)}

Indicators(row) == SubSeq(row, Len(row) - Cardinality(SeenAtFit) + 1, Len(row))

Ones(ind) == {c \in 1..Len(ind) : ind[c] = FltInt(1)}

(* C5: applying the fitted transformer never raises; a row whose sex was   *)
(* not seen at fit time gets indicators that are all zero, and a row whose *)
(* sex (or the placeholder of a missing sex) was seen gets exactly one 1.  *)
C5_UnknownCategoryIgnored ==
    /\ pc # "raised"
    /\ pc = "applied" =>
         \A i \in 1..Len(newdf) :
            LET ind == Indicators(out[i])
            IN  /\ \A c \in 1..Len(ind) : ind[c] \in {FltInt(0), FltInt(1)}
                /\ Cardinality(Ones(ind)) =
                      (IF SexValue(newdf[i]) \in SeenAtFit THEN 1 ELSE 0)
                /\ \A c \in Ones(ind) : fitted.categories[c] = SexValue(newdf[i])

C5_Witness ==
    /\ pc = "applied"
    /\ SexValue(newdf[1]) \notin SeenAtFit
    /\ "missing" \in SeenAtFit
    /\ Ones(Indicators(out[1])) = {}

Names(entries) == [i \in 1..Len(entries) |-> entries[i].FeatureName]

(* C7: the record put has one entry per feature definition registered,     *)
(* with the same names in the same order: the 8 schema features and        *)
(* EventTime.                                                              *)
C7_RecordCoversDefinitions ==
    put # NA =>
        /\ feature_group # NA
        /\ Names(put[1]) = Names(feature_group[1])
        /\ Names(put[1]) = feature_columns_names \o <<event_time_feature_name>>

C7_Witness ==
    /\ pc = "done"
    /\ Len(put[1]) = 9
    /\ Len(feature_group[1]) = 9

Digits == <<"0", "1", "2", "3", "4", "5", "6", "7", "8", "9">>

RECURSIVE IntStr(_)
IntStr(v) ==
    IF v < 10 THEN Digits[v + 1] ELSE IntStr(v \div 10) \o Digits[(v % 10) + 1]

(* The text of a cell of df_fs: the string itself, or the float's repr.    *)
CellStr(name, cell) ==
    IF cell = NA THEN "nan"
    ELSE IF name = "sex" THEN cell[1]
    ELSE IntStr(cell[1]) \o ".0"

(* C8: the record put holds the raw feature values of a row of this run's  *)
(* data, and its EventTime entry holds the run's time.                     *)
C8_RecordHoldsRawValues ==
    put # NA =>
        \E i \in 1..Len(df_fs) :
            \A e \in 1..Len(put[1]) :
                LET name == put[1][e].FeatureName
                IN  /\ put[1][e].ValueAsString = CellStr(name, df_fs[i][name])
                    /\ name = event_time_feature_name =>
                          df_fs[i][name] = <<current_time_sec>>

IsPrefix(s, t) == Len(s) <= Len(t) /\ \A i \in 1..Len(s) : s[i] = t[i]

(* C9: the steps attempted are always an initial part of the fixed order   *)
(* (so each at most once); every step taken attempts exactly one more step *)
(* and none is taken after a failure; the record is put only after the     *)
(* registration succeeded and the delay elapsed.                           *)
C9_StepOrder ==
    /\ [](/\ IsPrefix(attempted, StepOrder)
          /\ Attempted("ingest") => (Completed("register") /\ Completed("delay") /\ slept)
          /\ put # NA => feature_group # NA)
    /\ [][/\ pc # "failed"
          /\ attempted' = Append(attempted, StepOrder[Len(attempted) + 1])]_vars

C9_Witness ==
    /\ pc = "failed"
    /\ attempted[Len(attempted)] = "register"
    /\ feature_group = NA
    /\ put = NA

(* C10: a file whose write completed is in place with the contents         *)
(* written, in every later state of the run, failed or not.                *)
C10_WrittenFilesKept ==
    \A f \in Partitions :
        Completed("write_" \o f) => files[f] = <<ToCsv(PartitionOf(f))>>

C10_Witness ==
    /\ pc = "failed"
    /\ attempted[Len(attempted)] \in {"register", "ingest"}
    /\ \A f \in Partitions : files[f] = <<ToCsv(PartitionOf(f))>>
    /\ Len(train) > 0 /\ Len(test) > 0

====
